---- MODULE Spec2Model ----
(***************************************************************************)
(* Model of Src/OSD/Logger.cpp (Supermodel): the process-wide logger       *)
(* handle, the logger factory CreateLogger and the three sinks             *)
(* CConsoleErrorLogger, CFileLogger and CSystemLogger behind CMultiLogger. *)
(*                                                                         *)
(* A C string is a sequence of one-character strings, so that lower-casing,*)
(* trimming, splitting and snprintf truncation are computed as the code    *)
(* computes them.                                                          *)
(***************************************************************************)
EXTENDS Integers, Sequences, FiniteSets, TLC

(***************************************************************************)
(* Bounds of the model                                                     *)
(***************************************************************************)
\* longest LogOutput list (in tokens) that is enumerated
MaxOutputs == 2
\* a log call is taken only while every log file holds fewer lines than this
MaxLines == 2
\* how far the longest formatted message exceeds the message buffer
MaxExcess == 1

(***************************************************************************)
(* Characters and strings                                                  *)
(***************************************************************************)
Upper == <<"A","B","C","D","E","F","G","H","I","J","K","L","M",
           "N","O","P","Q","R","S","T","U","V","W","X","Y","Z">>
Lower == <<"a","b","c","d","e","f","g","h","i","j","k","l","m",
           "n","o","p","q","r","s","t","u","v","w","x","y","z">>
\* the characters used, in ASCII order (the order of std::string's operator<)
Ascii == <<"\n", " ", "%", ",", ".", ":">> \o Upper \o <<"[", "]">> \o Lower
CharRank(c) == CHOOSE i \in 1..Len(Ascii) : Ascii[i] = c

RECURSIVE StrLess(_, _)
StrLess(a, b) ==
  IF b = <<>> THEN FALSE
  ELSE IF a = <<>> THEN TRUE
  ELSE IF a[1] # b[1] THEN CharRank(a[1]) < CharRank(b[1])
  ELSE StrLess(Tail(a), Tail(b))

Take(s, n) == SubSeq(s, 1, IF n < Len(s) THEN n ELSE Len(s))

RECURSIVE Rep(_, _)
Rep(c, n) == IF n <= 0 THEN <<>> ELSE <<c>> \o Rep(c, n - 1)

\* snprintf(buf, size, ...): at most size-1 characters of the expansion are kept
Snprintf(size, expansion) == Take(expansion, size - 1)

(***************************************************************************)
(* Util helpers used by the factory                                        *)
(***************************************************************************)
ToLowerChar(c) ==
  IF \E i \in 1..26 : Upper[i] = c
    THEN Lower[CHOOSE i \in 1..26 : Upper[i] = c]
    ELSE c

ToLower(s) == [i \in 1..Len(s) |-> ToLowerChar(s[i])]

IsSpace(c) == c \in {" ", "\n", "\t", "\r"}

RECURSIVE TrimLeft(_)
TrimLeft(s) == IF s # <<>> /\ IsSpace(s[1]) THEN TrimLeft(Tail(s)) ELSE s

RECURSIVE TrimRight(_)
TrimRight(s) ==
  IF s # <<>> /\ IsSpace(s[Len(s)]) THEN TrimRight(SubSeq(s, 1, Len(s) - 1)) ELSE s

TrimWhiteSpace(s) == TrimRight(TrimLeft(s))

\* Util::Format(s).Split(sep): the parts between separators, empty parts kept
RECURSIVE SplitFrom(_, _, _)
SplitFrom(s, sep, cur) ==
  IF s = <<>> THEN <<cur>>
  ELSE IF s[1] = sep THEN <<cur>> \o SplitFrom(Tail(s), sep, <<>>)
  ELSE SplitFrom(Tail(s), sep, Append(cur, s[1]))

Split(s, sep) == SplitFrom(s, sep, <<>>)

RECURSIVE Join(_, _)
Join(parts, sep) ==
  IF parts = <<>> THEN <<>>
  ELSE IF Len(parts) = 1 THEN parts[1]
  ELSE parts[1] \o <<sep>> \o Join(Tail(parts), sep)

RECURSIVE SortSet(_)
\* the elements of a std::set<std::string>, in iteration order
SortSet(S) ==
  IF S = {} THEN <<>>
  ELSE LET m == CHOOSE x \in S : \A y \in S \ {x} : StrLess(x, y)
       IN <<m>> \o SortSet(S \ {m})

(***************************************************************************)
(* Program constants and literals                                          *)
(***************************************************************************)
\* CLogger::LogLevel
All == 0
Debug == 1
Info == 2
Error == 3
LogLevels == {All, Debug, Info, Error}
MsgLevels == {Debug, Info, Error}

\* size of the message buffer of the global entry points (scaled down)
MAX_LOG_LENGTH == 32

OKAY == "OKAY"
FAIL == "FAIL"

sStdout == <<"s","t","d","o","u","t">>
sStderr == <<"s","t","d","e","r","r">>
sSyslog == <<"s","y","s","l","o","g">>
sDebug == <<"d","e","b","u","g">>
sInfo == <<"i","n","f","o">>
sError == <<"e","r","r","o","r">>
sAll == <<"a","l","l">>
NL == <<"\n">>
PfxDebug == <<"[","D","e","b","u","g","]"," ">>
PfxInfo == <<"[","I","n","f","o","]"," ">>
PfxError == <<"[","E","r","r","o","r","]"," ">>
PfxConsole == <<"E","r","r","o","r",":"," ">>
FmtInvalidLogLevel ==
  <<"I","n","v","a","l","i","d"," ","l","o","g"," ","l","e","v","e","l",":"," ">>

(***************************************************************************)
(* I/O performed by an operation: opens, closes and writes, in order       *)
(***************************************************************************)
Event(ev, by, stream, path, mode, text) ==
  [ev |-> ev, by |-> by, stream |-> stream, path |-> path, mode |-> mode,
   text |-> text]

(***************************************************************************)
(* Files and std::ofstream                                                 *)
(***************************************************************************)
NoFile == [exists |-> FALSE, data |-> <<>>]
\* a line-sized gap left by a write past the end of a file
Hole == <<"?">>

PadTo(data, n) == data \o [i \in 1..(n - Len(data)) |-> Hole]

\* the stream's buffered lines reach the file: at the end of the file for a
\* stream opened with ios::app, at the stream's own position otherwise
FlushHandle(h, fsv) ==
  LET f == fsv[h.path]
      padded == PadTo(f.data, h.pos)
      newData == IF h.app THEN f.data \o h.buf
                 ELSE SubSeq(padded, 1, h.pos) \o h.buf
                      \o SubSeq(padded, h.pos + Len(h.buf) + 1, Len(padded))
  IN IF h.buf = <<>> THEN [h |-> h, fs |-> fsv]
     ELSE [h  |-> [h EXCEPT !.buf = <<>>,
                            !.pos = IF h.app THEN 0 ELSE h.pos + Len(h.buf)],
           fs |-> [fsv EXCEPT ![h.path] = [exists |-> TRUE, data |-> newData]]]

\* std::ofstream ofs(filename, mode); ofs.is_open() && ofs.good()
OpenFile(path, mode, fsv, canOpen) ==
  IF ~canOpen[path]
    THEN [ok |-> FALSE, fs |-> fsv,
          h |-> [path |-> path, buf |-> <<>>, app |-> FALSE, pos |-> 0]]
    ELSE [ok |-> TRUE,
          fs |-> [fsv EXCEPT ![path] =
                    [exists |-> TRUE,
                     data |-> IF mode = "app" THEN fsv[path].data ELSE <<>>]],
          h |-> [path |-> path, buf |-> <<>>, app |-> (mode = "app"), pos |-> 0]]

(***************************************************************************)
(* CFileLogger                                                             *)
(* A sink is [kind, m_logLevel, m_logFilenames, m_systemFiles, m_logFiles];*)
(* m_logFiles are the open streams [path, buf, app, pos]. Operations on a  *)
(* sink return the sink, the file system and the I/O they performed.       *)
(***************************************************************************)
Sink(kind, level, filenames, systemFiles) ==
  [kind |-> kind, m_logLevel |-> level, m_logFilenames |-> filenames,
   m_systemFiles |-> systemFiles, m_logFiles |-> <<>>]

RECURSIVE CloseFiles(_, _, _)
\* ofs.close() for every stream of m_logFiles
CloseFiles(hs, fsv, io) ==
  IF hs = <<>> THEN [fs |-> fsv, io |-> io]
  ELSE CloseFiles(Tail(hs), FlushHandle(hs[1], fsv).fs,
                  Append(io, Event("close", "file", "file", hs[1].path, "", <<>>)))

RECURSIVE OpenFiles(_, _, _, _, _, _)
\* one turn of the open loop, o the outcome of opening names[1]
OpenedNext(names, mode, hs, canOpen, io, o) ==
  OpenFiles(Tail(names), mode, IF o.ok THEN Append(hs, o.h) ELSE hs, o.fs, canOpen,
            Append(io, Event(IF o.ok THEN "open" ELSE "openfail", "file", "file",
                             names[1], mode, <<>>)))

\* the (re-)open loop: a stream is kept only when it opened
OpenFiles(names, mode, hs, fsv, canOpen, io) ==
  IF names = <<>> THEN [hs |-> hs, fs |-> fsv, io |-> io]
  ELSE OpenedNext(names, mode, hs, canOpen, io, OpenFile(names[1], mode, fsv, canOpen))

\* for (auto filename: m_logFilenames): the paths ReopenFiles opens
ReopenNames(sk) == sk.m_logFilenames

\* the sink with the streams o.hs that opened
WithStreams(sk, o) ==
  [sk |-> [sk EXCEPT !.m_logFiles = o.hs], fs |-> o.fs, io |-> o.io]

\* the open loop after the close loop c
OpenAfterClose(sk, mode, canOpen, c) ==
  WithStreams(sk, OpenFiles(ReopenNames(sk), mode, <<>>, c.fs, canOpen, c.io))

ReopenFiles(sk, mode, fsv, canOpen) ==
  OpenAfterClose(sk, mode, canOpen, CloseFiles(sk.m_logFiles, fsv, <<>>))

\* ofs << str: the line enters the stream's buffer
BufferLine(h, str) == [h EXCEPT !.buf = Append(@, str)]

RECURSIVE WriteLogFiles(_, _, _, _, _, _)
\* one turn of the write loop, w the stream i and the files after ofs << str
WroteNext(hs, i, str, F, io, w) ==
  WriteLogFiles([hs EXCEPT ![i] = w.h], i + 1, str, F, w.fs,
                Append(io, Event("write", "file", "file", hs[i].path, "", str)))

\* ofs << str for every stream i of m_logFiles; the streams in F write their
\* buffer through at once, the others keep the line buffered
WriteLogFiles(hs, i, str, F, fsv, io) ==
  IF i > Len(hs) THEN [hs |-> hs, fs |-> fsv, io |-> io]
  ELSE WroteNext(hs, i, str, F, io,
                 IF i \in F THEN FlushHandle(BufferLine(hs[i], str), fsv)
                 ELSE [h |-> BufferLine(hs[i], str), fs |-> fsv])

\* fputs(str, fp) for every pre-opened stream
WriteSystemFiles(fps, str) ==
  [i \in 1..Len(fps) |-> Event("write", "file", fps[i], <<>>, "", str)]

\* the pre-opened streams are written after the streams w of the files
ThenSystemFiles(sk, str, w) ==
  [sk |-> [sk EXCEPT !.m_logFiles = w.hs], fs |-> w.fs,
   io |-> w.io \o WriteSystemFiles(sk.m_systemFiles, str)]

WriteToFiles(sk, str, F, fsv) ==
  ThenSystemFiles(sk, str, WriteLogFiles(sk.m_logFiles, 1, str, F, fsv, <<>>))

NoOp(sk, fsv) == [sk |-> sk, fs |-> fsv, io |-> <<>>]

\* a mutant: a message at the floor itself is dropped too
FilteredAtFloor(floor, level) == floor >= level

\* the severity filter: m_logLevel > level returns without logging
Filtered(floor, level) == floor > level

\* snprintf(log_message, sizeof log_message, "[...] %s\n", message)
FileLogMessage(level, message) ==
  CASE level = Debug -> Snprintf(MAX_LOG_LENGTH + 9, PfxDebug \o message \o NL)
    [] level = Info  -> Snprintf(MAX_LOG_LENGTH + 8, PfxInfo \o message \o NL)
    [] level = Error -> Snprintf(MAX_LOG_LENGTH + 9, PfxError \o message \o NL)

\* a mutant: debug calls reopen the files too
ReopensAlways(level) == TRUE

\* InfoLog and ErrorLog reopen the files after writing, DebugLog does not
Reopens(level) == level # Debug

CFileLogger_DebugLog(sk, message, F, fsv, canOpen) ==
  IF Filtered(sk.m_logLevel, Debug) THEN NoOp(sk, fsv)
  ELSE WriteToFiles(sk, FileLogMessage(Debug, message), F, fsv)

\* a mutant: the files are reopened as the constructor opens them
ReopenModeTruncating == "out"

\* ReopenFiles(std::ios::app)
ReopenMode == "app"

\* the I/O of a call that did io and then r
IoThen(io, r) == [sk |-> r.sk, fs |-> r.fs, io |-> io \o r.io]

\* ReopenFiles after the write w
ReopenAfter(w, canOpen) ==
  IoThen(w.io, ReopenFiles(w.sk, ReopenMode, w.fs, canOpen))

WriteAndReopen(sk, log_message, F, fsv, canOpen) ==
  ReopenAfter(WriteToFiles(sk, log_message, F, fsv), canOpen)

CFileLogger_InfoLog(sk, message, F, fsv, canOpen) ==
  IF Filtered(sk.m_logLevel, Info) THEN NoOp(sk, fsv)
  ELSE WriteAndReopen(sk, FileLogMessage(Info, message), F, fsv, canOpen)

CFileLogger_ErrorLog(sk, message, F, fsv, canOpen) ==
  IF Filtered(sk.m_logLevel, Error) THEN NoOp(sk, fsv)
  ELSE WriteAndReopen(sk, FileLogMessage(Error, message), F, fsv, canOpen)

\* CFileLogger(level, filenames, systemFiles)
CFileLogger(level, filenames, systemFiles, fsv, canOpen) ==
  ReopenFiles(Sink("file", level, filenames, systemFiles), "out", fsv, canOpen)

\* ~CFileLogger: the streams of m_logFiles are closed
DestroyFileLogger(sk, fsv) == CloseFiles(sk.m_logFiles, fsv, <<>>).fs

(***************************************************************************)
(* CConsoleErrorLogger                                                     *)
(***************************************************************************)
CConsoleErrorLogger == Sink("console", All, <<>>, <<>>)

CConsoleErrorLogger_DebugLog(sk, message, fsv) == NoOp(sk, fsv)

CConsoleErrorLogger_InfoLog(sk, message, fsv) == NoOp(sk, fsv)

CConsoleErrorLogger_ErrorLog(sk, message, fsv) ==
  [sk |-> sk, fs |-> fsv,
   io |-> <<Event("write", "console", "stderr", <<>>, "",
                  PfxConsole \o message \o NL)>>]

(***************************************************************************)
(* CSystemLogger (the build with syslog)                                   *)
(***************************************************************************)
CSystemLogger(level) == Sink("system", level, <<>>, <<>>)

Syslog(sk, fsv, priority, log_message) ==
  [sk |-> sk, fs |-> fsv,
   io |-> <<Event("write", "system", "syslog", <<>>, priority, log_message)>>]

CSystemLogger_DebugLog(sk, message, fsv) ==
  IF Filtered(sk.m_logLevel, Debug) THEN NoOp(sk, fsv)
  ELSE Syslog(sk, fsv, "LOG_DEBUG", Snprintf(MAX_LOG_LENGTH + 8, PfxDebug \o message))

CSystemLogger_InfoLog(sk, message, fsv) ==
  IF Filtered(sk.m_logLevel, Info) THEN NoOp(sk, fsv)
  ELSE Syslog(sk, fsv, "LOG_INFO",
              Snprintf(MAX_LOG_LENGTH + 8, PfxInfo \o message \o NL))

CSystemLogger_ErrorLog(sk, message, fsv) ==
  IF Filtered(sk.m_logLevel, Error) THEN NoOp(sk, fsv)
  ELSE Syslog(sk, fsv, "LOG_ERR",
              Snprintf(MAX_LOG_LENGTH + 9, PfxError \o message \o NL))

(***************************************************************************)
(* CMultiLogger                                                            *)
(* A logger is [kind, m_loggers]: kind "multi" for a CMultiLogger, "null"  *)
(* for an empty std::shared_ptr<CLogger>.                                  *)
(***************************************************************************)
NullLogger == [kind |-> "null", m_loggers |-> <<>>]

CMultiLogger(loggers) == [kind |-> "multi", m_loggers |-> loggers]

\* logger->DebugLog / InfoLog / ErrorLog (message) by the sink's class
SinkLog(sk, level, message, F, fsv, canOpen) ==
  CASE sk.kind = "console" /\ level = Debug -> CConsoleErrorLogger_DebugLog(sk, message, fsv)
    [] sk.kind = "console" /\ level = Info  -> CConsoleErrorLogger_InfoLog(sk, message, fsv)
    [] sk.kind = "console" /\ level = Error -> CConsoleErrorLogger_ErrorLog(sk, message, fsv)
    [] sk.kind = "file" /\ level = Debug -> CFileLogger_DebugLog(sk, message, F, fsv, canOpen)
    [] sk.kind = "file" /\ level = Info  -> CFileLogger_InfoLog(sk, message, F, fsv, canOpen)
    [] sk.kind = "file" /\ level = Error -> CFileLogger_ErrorLog(sk, message, F, fsv, canOpen)
    [] sk.kind = "system" /\ level = Debug -> CSystemLogger_DebugLog(sk, message, fsv)
    [] sk.kind = "system" /\ level = Info  -> CSystemLogger_InfoLog(sk, message, fsv)
    [] sk.kind = "system" /\ level = Error -> CSystemLogger_ErrorLog(sk, message, fsv)

RECURSIVE ForEachLogger(_, _, _, _, _, _, _, _)
\* one turn of the loop, r what logger i did
ForwardedNext(loggers, i, level, message, F, canOpen, io, r) ==
  ForEachLogger([loggers EXCEPT ![i] = r.sk], i + 1, level, message, F, r.fs,
                canOpen, io \o r.io)

\* for (auto &logger: m_loggers) logger->...Log(message)
ForEachLogger(loggers, i, level, message, F, fsv, canOpen, io) ==
  IF i > Len(loggers) THEN [loggers |-> loggers, fs |-> fsv, io |-> io]
  ELSE ForwardedNext(loggers, i, level, message, F, canOpen, io,
                     SinkLog(loggers[i], level, message, F, fsv, canOpen))

\* the dispatcher after its loop r
WithLoggers(lg, r) ==
  [logger |-> [lg EXCEPT !.m_loggers = r.loggers], fs |-> r.fs, io |-> r.io]

\* a mutant: the dispatcher drops the last character of the message
MultiLogShortening(lg, level, message, F, fsv, canOpen) ==
  WithLoggers(lg, ForEachLogger(lg.m_loggers, 1, level,
                                SubSeq(message, 1, Len(message) - 1), F, fsv,
                                canOpen, <<>>))

MultiLog(lg, level, message, F, fsv, canOpen) ==
  WithLoggers(lg, ForEachLogger(lg.m_loggers, 1, level, message, F, fsv, canOpen, <<>>))

CMultiLogger_DebugLog(lg, message, F, fsv, canOpen) ==
  MultiLog(lg, Debug, message, F, fsv, canOpen)

CMultiLogger_InfoLog(lg, message, F, fsv, canOpen) ==
  MultiLog(lg, Info, message, F, fsv, canOpen)

CMultiLogger_ErrorLog(lg, message, F, fsv, canOpen) ==
  MultiLog(lg, Error, message, F, fsv, canOpen)

RECURSIVE DestroyLoggers(_, _)
DestroyLoggers(loggers, fsv) ==
  IF loggers = <<>> THEN fsv
  ELSE DestroyLoggers(Tail(loggers),
                      IF loggers[1].kind = "file"
                        THEN DestroyFileLogger(loggers[1], fsv) ELSE fsv)

\* the last std::shared_ptr to a logger goes away
Release(lg, fsv) == DestroyLoggers(lg.m_loggers, fsv)

(***************************************************************************)
(* The global entry points, as functions of the handle s_Logger, the       *)
(* expansion of the format (text) and the file system                      *)
(***************************************************************************)
\* a mutant: without a logger the call falls back to the console
UnloggedToConsole(lg, fsv, ret) ==
  [logger |-> lg, fs |-> fsv, ret |-> ret,
   io |-> <<Event("write", "console", "stderr", <<>>, "", PfxConsole \o NL)>>]

\* if (!s_Logger) return
Unlogged(lg, fsv, ret) == [logger |-> lg, fs |-> fsv, io |-> <<>>, ret |-> ret]

\* what the entry point leaves behind after the logger did r
Returned(r, ret) == [logger |-> r.logger, fs |-> r.fs, io |-> r.io, ret |-> ret]

\* vsnprintf(message, sizeof message, fmt, vl)
Vsnprintf(text) == Snprintf(MAX_LOG_LENGTH, text)

DebugLog(lg, text, F, fsv, canOpen) ==
  IF lg.kind = "null" THEN Unlogged(lg, fsv, "void")
  ELSE Returned(CMultiLogger_DebugLog(lg, Vsnprintf(text), F, fsv, canOpen), "void")

InfoLog(lg, text, F, fsv, canOpen) ==
  IF lg.kind = "null" THEN Unlogged(lg, fsv, "void")
  ELSE Returned(CMultiLogger_InfoLog(lg, Vsnprintf(text), F, fsv, canOpen), "void")

ErrorLog(lg, text, F, fsv, canOpen) ==
  IF lg.kind = "null" THEN Unlogged(lg, fsv, FAIL)
  ELSE Returned(CMultiLogger_ErrorLog(lg, Vsnprintf(text), F, fsv, canOpen), FAIL)

(***************************************************************************)
(* The factory                                                             *)
(* A configuration is [LogLevel, LogOutput], each [has, val].              *)
(***************************************************************************)
ValueAsDefault(node, default) == IF node.has THEN node.val ELSE default

logLevelByString ==
  {<<sDebug, Debug>>, <<sInfo, Info>>, <<sError, Error>>, <<sAll, All>>}

\* logLevelByString.find(logLevel)
Find(logLevel) == {e \in logLevelByString : e[1] = logLevel}

\* return pair(OKAY, it->second)
LevelFound(it, lg, fsv) ==
  [first |-> OKAY, second |-> it[2], logger |-> lg, fs |-> fsv, io |-> <<>>]

\* return pair(FAIL, Info), r what ErrorLog did
LevelNotFound(r) ==
  [first |-> FAIL, second |-> Info, logger |-> r.logger, fs |-> r.fs, io |-> r.io]

\* a mutant: an unrecognized level fails without a report
ResolveLevelSilently(logLevel, lg, F, fsv, canOpen) ==
  IF Find(logLevel) # {} THEN LevelFound(CHOOSE e \in Find(logLevel) : TRUE, lg, fsv)
  ELSE LevelNotFound(Unlogged(lg, fsv, FAIL))

\* GetLogLevel once the option is read and lower-cased
ResolveLevel(logLevel, lg, F, fsv, canOpen) ==
  IF Find(logLevel) # {} THEN LevelFound(CHOOSE e \in Find(logLevel) : TRUE, lg, fsv)
  ELSE LevelNotFound(ErrorLog(lg, FmtInvalidLogLevel \o logLevel, F, fsv, canOpen))

GetLogLevel(config, lg, F, fsv, canOpen) ==
  ResolveLevel(ToLower(ValueAsDefault(config.LogLevel, sInfo)), lg, F, fsv, canOpen)

supportedDestinations == {sStdout, sStderr, sSyslog}

\* a mutant: filenames are lower-cased like the keywords
InsertFilenameLowered(filenames, output) ==
  filenames \cup {ToLower(TrimWhiteSpace(output))}

\* filenames.insert(Util::TrimWhiteSpace(output))
InsertFilename(filenames, output) == filenames \cup {TrimWhiteSpace(output)}

\* destinations.insert(canonicalizedOutput)
InsertDestination(destinations, canonicalizedOutput) ==
  destinations \cup {canonicalizedOutput}

RECURSIVE ParseOutputs(_, _, _)
\* the loop over outputs: [destinations, filenames]
ParseOutputs(outputs, destinations, filenames) ==
  IF outputs = <<>> THEN [destinations |-> destinations, filenames |-> filenames]
  ELSE LET output == outputs[1]
           canonicalizedOutput == TrimWhiteSpace(ToLower(output))
       IN IF canonicalizedOutput \in supportedDestinations
            THEN ParseOutputs(Tail(outputs),
                              InsertDestination(destinations, canonicalizedOutput),
                              filenames)
          ELSE IF canonicalizedOutput # <<>>
            THEN ParseOutputs(Tail(outputs), destinations,
                              InsertFilename(filenames, output))
          ELSE ParseOutputs(Tail(outputs), destinations, filenames)

\* a mutant: the pre-opened streams alone do not make a file logger
WantFileLoggerForFilesOnly(logFilenames, systemFiles) == logFilenames # <<>>

\* if (!logFilenames.empty() || !systemFiles.empty())
WantFileLogger(logFilenames, systemFiles) ==
  logFilenames # <<>> \/ systemFiles # <<>>

\* systemFiles.push_back(stdout); systemFiles.push_back(stderr)
SystemFilesOf(destinations) ==
  (IF sStdout \in destinations THEN <<"stdout">> ELSE <<>>)
  \o (IF sStderr \in destinations THEN <<"stderr">> ELSE <<>>)

\* loggers.push_back(std::make_shared<CSystemLogger>(logLevel))
SystemLoggersOf(destinations, logLevel) ==
  IF sSyslog \in destinations THEN <<CSystemLogger(logLevel)>> ELSE <<>>

\* the dispatcher with the file logger f constructed
WithFileLogger(destinations, logLevel, f) ==
  [ret |-> CMultiLogger(<<CConsoleErrorLogger, f.sk>>
                        \o SystemLoggersOf(destinations, logLevel)),
   fs |-> f.fs, io |-> f.io]

\* the dispatcher with no file logger
WithoutFileLogger(destinations, logLevel, fsv) ==
  [ret |-> CMultiLogger(<<CConsoleErrorLogger>>
                        \o SystemLoggersOf(destinations, logLevel)),
   fs |-> fsv, io |-> <<>>]

\* the loggers pushed for the destinations, filenames and streams resolved
Assemble(destinations, logFilenames, systemFiles, logLevel, fsv, canOpen) ==
  IF WantFileLogger(logFilenames, systemFiles)
    THEN WithFileLogger(destinations, logLevel,
                        CFileLogger(logLevel, logFilenames, systemFiles, fsv, canOpen))
    ELSE WithoutFileLogger(destinations, logLevel, fsv)

\* the sets of the parse loop turned into the lists of the sinks
AssembleParsed(parsed, logLevel, fsv, canOpen) ==
  Assemble(parsed.destinations, SortSet(parsed.filenames),
           SystemFilesOf(parsed.destinations), logLevel, fsv, canOpen)

\* what CreateLogger does once the log level is resolved
BuildLoggers(config, logLevel, fsv, canOpen) ==
  AssembleParsed(ParseOutputs(Split(ValueAsDefault(config.LogOutput, <<>>), ","),
                              {}, {}),
                 logLevel, fsv, canOpen)

\* CreateLogger's result: the logger b.ret built after the level lookup
BuiltAfter(logLevelResult, b) ==
  [ret |-> b.ret, logger |-> logLevelResult.logger, fs |-> b.fs,
   io |-> logLevelResult.io \o b.io]

\* a mutant: the failure of GetLogLevel is ignored and its level used
AfterLevelIgnoringFailure(config, canOpen, logLevelResult) ==
  BuiltAfter(logLevelResult,
        BuildLoggers(config, logLevelResult.second, logLevelResult.fs, canOpen))

\* CreateLogger after GetLogLevel returned logLevelResult
AfterLevel(config, canOpen, logLevelResult) ==
  IF logLevelResult.first # OKAY
    THEN [ret |-> NullLogger, logger |-> logLevelResult.logger,
          fs |-> logLevelResult.fs, io |-> logLevelResult.io]
    ELSE BuiltAfter(logLevelResult,
               BuildLoggers(config, logLevelResult.second, logLevelResult.fs, canOpen))

\* [ret: the logger returned, logger: s_Logger afterwards, fs, io]
CreateLogger(config, lg, F, fsv, canOpen) ==
  AfterLevel(config, canOpen, GetLogLevel(config, lg, F, fsv, canOpen))

(***************************************************************************)
(* Inputs                                                                  *)
(***************************************************************************)
tFILE == <<"F","I","L","E",".","t","x","t">>
tfile == <<"f","i","l","e",".","t","x","t">>
Paths == {tFILE, tfile}

\* the tokens LogOutput lists are built from
Tokens ==
  { sStdout, <<" ","S","T","D","O","U","T"," ">>, sStderr,
    <<"S","y","s","L","o","g">>, <<" "," ">> \o tFILE, tfile, <<" ">>, <<>> }

RECURSIVE SeqsUpTo(_, _)
SeqsUpTo(S, n) ==
  IF n = 0 THEN {<<>>}
  ELSE LET shorter == SeqsUpTo(S, n - 1)
       IN shorter \cup {Append(q, x) : q \in {r \in shorter : Len(r) = n - 1}, x \in S}

\* "stdout, STDOUT ,  FILE.txt,file.txt"
ExampleOutput ==
  Join(<<sStdout, <<" ","S","T","D","O","U","T"," ">>, <<" "," ">> \o tFILE, tfile>>, ",")

Present(v) == [has |-> TRUE, val |-> v]
Absent == [has |-> FALSE, val |-> <<>>]

LogOutputValues ==
  {Absent} \cup {Present(Join(q, ",")) : q \in SeqsUpTo(Tokens, MaxOutputs)}
  \cup {Present(ExampleOutput)}

sVerbose == <<"v","e","r","b","o","s","e">>
LogLevelValues ==
  {Absent, Present(<<"D","e","b","u","g">>), Present(sInfo),
   Present(<<"E","R","R","O","R">>), Present(sAll), Present(sVerbose)}

\* the expansions of the format of a log call: a short one, and one longer
\* than the message buffer
Texts == {<<"m">>, Rep("x", MAX_LOG_LENGTH - 1 + MaxExcess)}

OldLine == <<"o","l","d","\n">>
OldFile == [exists |-> TRUE, data |-> <<OldLine>>]

(***************************************************************************)
(* State                                                                   *)
(***************************************************************************)
VARIABLES
  s_Logger,   \* the process-wide handle
  created,    \* the caller's pointer to the logger CreateLogger returned last
  config,     \* the configuration node handed to CreateLogger
  fs,         \* the files, by path: [exists, data]
  canOpen,    \* whether opening a path for writing succeeds now
  io,         \* the I/O of the last operation, in order
  last,       \* the last call: [op, level, text, unset, ret]
  fileLogger, \* a CFileLogger shared by the threads
  m_mtx,      \* the owner of fileLogger's mutex
  pc,         \* where each thread is in its call
  call,       \* each thread's call: [level, log_message]
  written,    \* the lines handed to WriteToFiles, in order
  failed      \* the paths that failed to open: [ctor, ever]

vars == <<s_Logger, created, config, fs, canOpen, io, last,
          fileLogger, m_mtx, pc, call, written, failed>>

Threads == {"t1", "t2"}
NoThread == "none"
IdleCall == [level |-> All, log_message |-> <<>>]

fileVars == <<fileLogger, m_mtx, pc, call, written, failed>>
facadeVars == <<s_Logger, created, config>>

Call(op, level, text, unset, ret) ==
  [op |-> op, level |-> level, text |-> text, unset |-> unset, ret |-> ret]

NoCall == Call("none", All, <<>>, TRUE, "void")

NoFileLogger == Sink("none", All, <<>>, <<>>)

InitFile ==
  /\ fileLogger = NoFileLogger
  /\ m_mtx = NoThread
  /\ pc = [t \in Threads |-> "idle"]
  /\ call = [t \in Threads |-> IdleCall]
  /\ written = <<>>
  /\ failed = [ctor |-> {}, ever |-> {}]

Init ==
  /\ s_Logger = NullLogger
  /\ created = NullLogger
  /\ config \in [LogLevel : LogLevelValues, LogOutput : LogOutputValues]
  /\ fs = [p \in Paths |-> OldFile]
  /\ canOpen = [p \in Paths |-> TRUE]
  /\ io = <<>>
  /\ last = NoCall
  /\ InitFile

(***************************************************************************)
(* Operations of the facade, called by one thread                          *)
(***************************************************************************)
FileLoggersOf(lg) ==
  {i \in 1..Len(lg.m_loggers) : lg.m_loggers[i].kind = "file"}

\* the sets of streams of lg's file logger that may write through at once
WriteThrough(lg) ==
  IF FileLoggersOf(lg) = {} THEN {{}}
  ELSE SUBSET (1..Len(lg.m_loggers[CHOOSE i \in FileLoggersOf(lg) : TRUE].m_logFiles))

\* the open streams of a logger's file logger
StreamsOf(lg) ==
  IF FileLoggersOf(lg) = {} THEN <<>>
  ELSE lg.m_loggers[CHOOSE i \in FileLoggersOf(lg) : TRUE].m_logFiles

\* log calls are taken while the files, the buffers and the stream positions
\* are short
Room ==
  /\ \A p \in Paths : Len(fs[p].data) < MaxLines
  /\ \A i \in 1..Len(StreamsOf(s_Logger)) :
       StreamsOf(s_Logger)[i].pos + Len(StreamsOf(s_Logger)[i].buf) < MaxLines

\* the configurations the caller hands to CreateLogger: its own, and the same
\* with an unrecognized LogLevel
ConfigsOf(c) == {c, [c EXCEPT !.LogLevel = Present(sVerbose)]}

\* the state after CreateLogger(cfg) did r
CreateLoggerReturns(cfg, r) ==
  /\ r.ret.kind = "null" => Room
  /\ s_Logger' = r.logger
  /\ created' = r.ret
  /\ fs' = Release(created, r.fs)
  /\ io' = r.io
  /\ last' = Call("CreateLogger", All, ValueAsDefault(cfg.LogLevel, sInfo),
                  s_Logger.kind = "null",
                  IF r.ret.kind = "null" THEN FAIL ELSE OKAY)
  /\ UNCHANGED <<config, canOpen, fileVars>>

\* created = CreateLogger(cfg)
DoCreateLogger ==
  \E cfg \in ConfigsOf(config), F \in WriteThrough(s_Logger) :
    CreateLoggerReturns(cfg, CreateLogger(cfg, s_Logger, F, fs, canOpen))

\* SetLogger(created), the caller giving up its pointer
DoSetLogger ==
  /\ created.kind # "null"
  /\ s_Logger' = created
  /\ created' = NullLogger
  /\ fs' = Release(s_Logger, fs)
  /\ io' = <<>>
  /\ last' = Call("SetLogger", All, <<>>, s_Logger.kind = "null", "void")
  /\ UNCHANGED <<config, canOpen, fileVars>>

\* SetLogger(std::shared_ptr<CLogger>())
DoSetLoggerNull ==
  /\ s_Logger.kind # "null"
  /\ s_Logger' = NullLogger
  /\ fs' = Release(s_Logger, fs)
  /\ io' = <<>>
  /\ last' = Call("SetLogger", All, <<>>, FALSE, "void")
  /\ UNCHANGED <<created, config, canOpen, fileVars>>

Logged(op, level, text, r) ==
  /\ s_Logger' = r.logger
  /\ fs' = r.fs
  /\ io' = r.io
  /\ last' = Call(op, level, text, s_Logger.kind = "null", r.ret)
  /\ UNCHANGED <<created, config, canOpen, fileVars>>

DoDebugLog ==
  /\ Room
  /\ \E text \in Texts, F \in WriteThrough(s_Logger) :
       Logged("DebugLog", Debug, text, DebugLog(s_Logger, text, F, fs, canOpen))

DoInfoLog ==
  /\ Room
  /\ \E text \in Texts, F \in WriteThrough(s_Logger) :
       Logged("InfoLog", Info, text, InfoLog(s_Logger, text, F, fs, canOpen))

DoErrorLog ==
  /\ Room
  /\ \E text \in Texts, F \in WriteThrough(s_Logger) :
       Logged("ErrorLog", Error, text, ErrorLog(s_Logger, text, F, fs, canOpen))

Next ==
  \/ DoCreateLogger
  \/ DoSetLogger
  \/ DoSetLoggerNull
  \/ DoDebugLog
  \/ DoInfoLog
  \/ DoErrorLog

Spec == Init /\ [][Next]_vars

(***************************************************************************)
(* One CFileLogger used by several threads, a step at a time               *)
(***************************************************************************)
\* the sorted, duplicate-free path lists CreateLogger can hand over
FilenameLists == {SortSet(S) : S \in SUBSET Paths}

SystemFileLists == {<<>>, <<"stderr">>}

\* the messages the threads log
FileTexts == {<<"m">>}

FailedOpens(trace) ==
  {trace[i].path : i \in {j \in 1..Len(trace) : trace[j].ev = "openfail"}}

InitShared ==
  /\ s_Logger = NullLogger
  /\ created = NullLogger
  /\ config = [LogLevel |-> Absent, LogOutput |-> Absent]
  /\ fs = [p \in Paths |-> OldFile]
  /\ canOpen \in [Paths -> BOOLEAN]
  /\ io = <<>>
  /\ last = NoCall
  /\ InitFile

\* fileLogger = std::make_shared<CFileLogger>(level, filenames, systemFiles)
Construct ==
  /\ fileLogger.kind = "none"
  /\ \E level \in LogLevels, filenames \in FilenameLists,
        systemFiles \in SystemFileLists :
       /\ filenames # <<>> \/ systemFiles # <<>>
       /\ LET r == CFileLogger(level, filenames, systemFiles, fs, canOpen)
          IN /\ fileLogger' = r.sk
             /\ fs' = r.fs
             /\ io' = r.io
             /\ failed' = [ctor |-> FailedOpens(r.io), ever |-> FailedOpens(r.io)]
  /\ UNCHANGED <<s_Logger, created, config, last, canOpen, m_mtx, pc, call, written>>

\* the environment makes a path openable or not (permissions, directories)
SetOpenable(p) ==
  /\ canOpen' = [canOpen EXCEPT ![p] = ~@]
  /\ io' = <<>>
  /\ UNCHANGED <<s_Logger, created, config, last, fs, fileVars>>

InFlight == {t \in Threads : pc[t] \in {"lock", "write"}}

\* a thread calls DebugLog, InfoLog or ErrorLog of the sink: the filter and
\* the formatting, which take no lock
Begin(t) ==
  /\ fileLogger.kind = "file"
  /\ pc[t] = "idle"
  /\ Len(written) + Cardinality(InFlight) < MaxLines
  /\ \E level \in MsgLevels, message \in FileTexts :
       /\ IF Filtered(fileLogger.m_logLevel, level)
            THEN UNCHANGED <<pc, call>>
            ELSE /\ pc' = [pc EXCEPT ![t] = "lock"]
                 /\ call' = [call EXCEPT ![t] =
                       [level |-> level,
                        log_message |-> FileLogMessage(level, message)]]
  /\ io' = <<>>
  /\ UNCHANGED <<s_Logger, created, config, last, fs, canOpen, fileLogger, m_mtx, written, failed>>

\* a mutant: the lock is taken whoever owns it
MutexIgnored == TRUE

\* std::unique_lock<std::mutex> lock(m_mtx) blocks while another thread owns it
MutexFree == m_mtx = NoThread

Lock(t) ==
  /\ pc[t] = "lock"
  /\ MutexFree
  /\ m_mtx' = t
  /\ pc' = [pc EXCEPT ![t] = "write"]
  /\ io' = <<>>
  /\ UNCHANGED <<s_Logger, created, config, last, fs, canOpen, fileLogger, call, written, failed>>

\* where a call goes after WriteToFiles
AfterWrite(level) == IF Reopens(level) THEN "close" ELSE "unlock"

Write(t) ==
  /\ pc[t] = "write"
  /\ \E F \in SUBSET (1..Len(fileLogger.m_logFiles)) :
       LET w == WriteToFiles(fileLogger, call[t].log_message, F, fs)
       IN /\ fileLogger' = w.sk
          /\ fs' = w.fs
          /\ io' = w.io
  /\ written' = Append(written, call[t].log_message)
  /\ pc' = [pc EXCEPT ![t] = AfterWrite(call[t].level)]
  /\ UNCHANGED <<s_Logger, created, config, last, canOpen, m_mtx, call, failed>>

\* ReopenFiles, first half: every stream is closed and m_logFiles cleared
Close(t) ==
  /\ pc[t] = "close"
  /\ LET c == CloseFiles(fileLogger.m_logFiles, fs, <<>>)
     IN /\ fs' = c.fs
        /\ io' = c.io
  /\ fileLogger' = [fileLogger EXCEPT !.m_logFiles = <<>>]
  /\ pc' = [pc EXCEPT ![t] = "open"]
  /\ UNCHANGED <<s_Logger, created, config, last, canOpen, m_mtx, call, written, failed>>

\* ReopenFiles, second half: every configured path is opened for appending
Open(t) ==
  /\ pc[t] = "open"
  /\ LET o == OpenFiles(ReopenNames(fileLogger), ReopenMode,
                        fileLogger.m_logFiles, fs, canOpen, <<>>)
     IN /\ fileLogger' = [fileLogger EXCEPT !.m_logFiles = o.hs]
        /\ fs' = o.fs
        /\ io' = o.io
        /\ failed' = [failed EXCEPT !.ever = @ \cup FailedOpens(o.io)]
  /\ pc' = [pc EXCEPT ![t] = "unlock"]
  /\ UNCHANGED <<s_Logger, created, config, last, canOpen, m_mtx, call, written>>

\* the call returns and its unique_lock releases the mutex
Unlock(t) ==
  /\ pc[t] = "unlock"
  /\ m_mtx' = IF m_mtx = t THEN NoThread ELSE m_mtx
  /\ pc' = [pc EXCEPT ![t] = "idle"]
  /\ call' = [call EXCEPT ![t] = IdleCall]
  /\ io' = <<>>
  /\ UNCHANGED <<s_Logger, created, config, last, fs, canOpen, fileLogger, written, failed>>

NextFile ==
  \/ Construct
  \/ \E p \in Paths : SetOpenable(p)
  \/ \E t \in Threads : Begin(t)
  \/ \E t \in Threads : Lock(t)
  \/ \E t \in Threads : Write(t)
  \/ \E t \in Threads : Close(t)
  \/ \E t \in Threads : Open(t)
  \/ \E t \in Threads : Unlock(t)

SpecFile == InitShared /\ [][NextFile]_vars

(***************************************************************************)
(* Properties of the facade and the factory (specification Spec)           *)
(***************************************************************************)
LogOps == {"DebugLog", "InfoLog", "ErrorLog"}

Indices(q) == 1..Len(q)

\* the events of the last operation that satisfy a test
Writes(by) == {i \in Indices(io) : io[i].ev = "write" /\ io[i].by = by}

Kinds(lg) == [i \in Indices(lg.m_loggers) |-> lg.m_loggers[i].kind]

SinksOf(lg, kinds) == {i \in Indices(lg.m_loggers) : lg.m_loggers[i].kind \in kinds}

\* the LogLevel strings the factory accepts, lower-cased
RecognizedLevels ==
  {<<"d","e","b","u","g">>, <<"i","n","f","o">>, <<"e","r","r","o","r">>,
   <<"a","l","l">>}

\* the last operation was CreateLogger with an unrecognized LogLevel
BadLevelCreate ==
  /\ last.op = "CreateLogger"
  /\ ToLower(last.text) \notin RecognizedLevels

\* C1: ErrorLog returns the failure indicator whatever the handle is, and
\* while the handle is unset no log call performs any I/O: nothing is
\* delivered to a sink, written, opened or closed.
C1_ErrorLogFailsUnsetIsSilent ==
  /\ last.op = "ErrorLog" => last.ret = FAIL
  /\ (last.op \in LogOps /\ last.unset) => io = <<>>

C1_Witness ==
  /\ last.op = "ErrorLog"
  /\ last.unset
  /\ created.kind = "multi"

\* the immutable part of a logger: which sinks it holds and how they are set
SameLogger(a, b) ==
  /\ a.kind = b.kind
  /\ Len(a.m_loggers) = Len(b.m_loggers)
  /\ \A i \in Indices(a.m_loggers) :
       /\ a.m_loggers[i].kind = b.m_loggers[i].kind
       /\ a.m_loggers[i].m_logLevel = b.m_loggers[i].m_logLevel
       /\ a.m_loggers[i].m_logFilenames = b.m_loggers[i].m_logFilenames
       /\ a.m_loggers[i].m_systemFiles = b.m_loggers[i].m_systemFiles

C2_State ==
  BadLevelCreate =>
    /\ last.ret = FAIL
    /\ created = NullLogger
    /\ \A i \in Indices(io) : io[i].mode # "out"

C2_Step ==
  (last'.op = "CreateLogger" /\ ToLower(last'.text) \notin RecognizedLevels)
    => /\ SameLogger(s_Logger, s_Logger')
       /\ \A p \in Paths : fs[p].exists => fs'[p].exists /\ Len(fs'[p].data) >= Len(fs[p].data)

\* C2: with an unrecognized LogLevel CreateLogger fails: it returns no
\* dispatcher, no sink is constructed (no file is opened for truncation and
\* none loses content), and the handle holds the logger it held before.
C2_BadLevelBuildsNothing == [] C2_State /\ [][C2_Step]_vars

C2_Witness ==
  /\ BadLevelCreate
  /\ s_Logger.kind = "multi"
  /\ SinksOf(s_Logger, {"file"}) # {}
  /\ config.LogOutput = Present(tfile)

\* "Error: Invalid log level: verbose\n"
InvalidVerboseLine ==
  <<"E","r","r","o","r",":"," ","I","n","v","a","l","i","d"," ","l","o","g"," ",
    "l","e","v","e","l",":"," ","v","e","r","b","o","s","e","\n">>

ConsoleReports ==
  {i \in Writes("console") : io[i].stream = "stderr" /\ io[i].text = InvalidVerboseLine}

\* C3 as stated: an unrecognized LogLevel is reported exactly once through
\* the console sink, whatever the handle is, also when it is unset.
C3_ReportedOnceAlways ==
  BadLevelCreate => Cardinality(ConsoleReports) = 1

\* C3 amended: an unrecognized LogLevel is reported through the installed
\* logger: exactly once by its console sink when the handle is set, and not
\* at all (no I/O whatever) when the handle is unset.
C3_ReportedThroughHandle ==
  BadLevelCreate =>
    /\ Cardinality(Writes("console")) = Cardinality(ConsoleReports)
    /\ Cardinality(ConsoleReports) = IF last.unset THEN 0 ELSE 1
    /\ last.unset => io = <<>>

C3_Witness ==
  /\ BadLevelCreate
  /\ ~last.unset
  /\ Cardinality(ConsoleReports) = 1

\* the order Debug < Info < Error, written out; All is below every level
AtOrAbove(level, floor) ==
  \/ floor = All
  \/ <<floor, level>> \in {<<Debug, Debug>>, <<Debug, Info>>, <<Debug, Error>>,
                            <<Info, Info>>, <<Info, Error>>, <<Error, Error>>}

\* C4: a file or system sink with floor f emits a message of level l iff l
\* is at or above f in Debug < Info < Error; a sink with floor All emits
\* every message.
C4_FloorFilter ==
  (last.op \in LogOps /\ ~last.unset) =>
    \A i \in SinksOf(s_Logger, {"file", "system"}) :
      (Writes(s_Logger.m_loggers[i].kind) # {})
        <=> AtOrAbove(last.level, s_Logger.m_loggers[i].m_logLevel)

C4_Witness ==
  /\ last.op = "DebugLog"
  /\ ~last.unset
  /\ \E i \in SinksOf(s_Logger, {"system"}) : s_Logger.m_loggers[i].m_logLevel = All
  /\ \E i \in SinksOf(s_Logger, {"file"}) : s_Logger.m_loggers[i].m_logLevel = All
  /\ Writes("file") # {}
  /\ Writes("system") # {}

NoRepeats(q) == \A i, j \in Indices(q) : i # j => q[i] # q[j]

NoRepeatsIgnoringCase(q) ==
  \A i, j \in Indices(q) : i # j => ToLower(q[i]) # ToLower(q[j])

Built == last.op = "CreateLogger" /\ last.ret = OKAY

\* C5 as stated: the file sink holds one path per filename, compared
\* case-insensitively, and one stream per keyword.
C5_DedupIgnoringCase ==
  Built =>
    \A i \in SinksOf(created, {"file"}) :
      /\ NoRepeatsIgnoringCase(created.m_loggers[i].m_logFilenames)
      /\ NoRepeats(created.m_loggers[i].m_systemFiles)

\* C5 amended: keywords are deduplicated case-insensitively, filenames only
\* as trimmed strings with their case kept: the file sink holds each stream
\* once and each distinct trimmed non-empty filename once, and the example
\* list yields stdout once and the two paths FILE.txt and file.txt.
C5_DedupKeepingCase ==
  Built =>
    \A i \in SinksOf(created, {"file"}) :
      LET sk == created.m_loggers[i]
      IN /\ NoRepeats(sk.m_logFilenames)
         /\ NoRepeats(sk.m_systemFiles)
         /\ NoRepeats([j \in Indices(sk.m_logFiles) |-> sk.m_logFiles[j].path])
         /\ \A j \in Indices(sk.m_logFilenames) :
              /\ sk.m_logFilenames[j] # <<>>
              /\ sk.m_logFilenames[j] \in Paths
         /\ config.LogOutput = Present(ExampleOutput) =>
              /\ sk.m_systemFiles = <<"stdout">>
              /\ sk.m_logFilenames = <<tFILE, tfile>>

C5_Witness ==
  /\ Built
  /\ config.LogOutput = Present(ExampleOutput)
  /\ SinksOf(created, {"file"}) # {}

\* the destinations named by the configuration, canonicalized
NamedOutputs ==
  {TrimWhiteSpace(ToLower(tok)) :
     tok \in {Split(ValueAsDefault(config.LogOutput, <<>>), ",")[i] :
                i \in Indices(Split(ValueAsDefault(config.LogOutput, <<>>), ","))}}

\* C6: a dispatcher returned by CreateLogger holds a console sink, then a
\* file sink iff a filename or stdout/stderr was named (its streams stdout
\* before stderr), then a system sink iff syslog was named, and nothing else.
C6_SinksOfDispatcher ==
  Built =>
    /\ created.kind = "multi"
    /\ Kinds(created) =
         <<"console">>
         \o (IF NamedOutputs \ {<<>>, sSyslog} # {} THEN <<"file">> ELSE <<>>)
         \o (IF sSyslog \in NamedOutputs THEN <<"system">> ELSE <<>>)
    /\ \A i \in SinksOf(created, {"file"}) :
         created.m_loggers[i].m_systemFiles =
           (IF sStdout \in NamedOutputs THEN <<"stdout">> ELSE <<>>)
           \o (IF sStderr \in NamedOutputs THEN <<"stderr">> ELSE <<>>)

C6_Witness ==
  /\ Built
  /\ Kinds(created) = <<"console", "file", "system">>
  /\ \E i \in SinksOf(created, {"file"}) :
       /\ created.m_loggers[i].m_logFilenames = <<>>
       /\ created.m_loggers[i].m_systemFiles = <<"stderr">>

\* the handle holds the dispatcher of LogLevel=error, LogOutput=stderr
ErrorToStderr ==
  /\ s_Logger.kind = "multi"
  /\ Kinds(s_Logger) = <<"console", "file">>
  /\ s_Logger.m_loggers[2].m_logLevel = Error
  /\ s_Logger.m_loggers[2].m_logFilenames = <<>>
  /\ s_Logger.m_loggers[2].m_systemFiles = <<"stderr">>

\* the message the entry point formats into its buffer
Formatted(text) == SubSeq(text, 1, IF Len(text) < 31 THEN Len(text) ELSE 31)

\* C9: with the dispatcher of LogLevel=error and LogOutput=stderr installed,
\* DebugLog and InfoLog produce no output and ErrorLog produces exactly the
\* console sink's "Error: <message>" line followed by the file sink's
\* "[Error] <message>" line, both on stderr, the message unchanged.
C9_ErrorToStderr ==
  (ErrorToStderr /\ last.op \in LogOps) =>
    io = IF last.op = "ErrorLog"
           THEN << Event("write", "console", "stderr", <<>>, "",
                         <<"E","r","r","o","r",":"," ">> \o Formatted(last.text) \o <<"\n">>),
                   Event("write", "file", "stderr", <<>>, "",
                         <<"[","E","r","r","o","r","]"," ">> \o Formatted(last.text)
                           \o <<"\n">>) >>
           ELSE <<>>

C9_Witness ==
  /\ ErrorToStderr
  /\ last.op = "ErrorLog"
  /\ Len(last.text) > 31
  /\ Len(io) = 2

(***************************************************************************)
(* Properties of one CFileLogger under threads (specification SpecFile)    *)
(***************************************************************************)
IsPrefix(a, b) == Len(a) <= Len(b) /\ SubSeq(b, 1, Len(a)) = a

Configured == {fileLogger.m_logFilenames[i] : i \in Indices(fileLogger.m_logFilenames)}

OpenPaths == {fileLogger.m_logFiles[i].path : i \in Indices(fileLogger.m_logFiles)}

\* a thread's info or error call has written and reopened and is returning
Returning(t) == pc[t] = "unlock" /\ call[t].level \in {Info, Error}

IsDebugLine(line) == SubSeq(line, 1, 3) = <<"[", "D", "e">>

InfoErrorLines(q) == SelectSeq(q, LAMBDA line : ~IsDebugLine(line))

\* after construction a configured file only grows
C7_Step ==
  fileLogger.kind = "file" =>
    \A p \in Configured : IsPrefix(fs[p].data, fs'[p].data)

\* C7 as stated: when an info or error call returns, a file that always
\* opened holds exactly the info and error lines written so far, in order.
C7_FileHoldsInfoErrorLines ==
  \A t \in Threads :
    Returning(t) =>
      \A p \in Configured \ failed.ever : fs[p].data = InfoErrorLines(written)

C7_State ==
  \A t \in Threads :
    Returning(t) => \A p \in Configured \ failed.ever : fs[p].data = written

\* C7 amended: a file that opened every time is truncated at construction
\* and only appended to afterwards, and when an info or error call returns
\* it holds exactly the lines the sink's floor accepted so far, debug lines
\* included, in call order.
C7_FileHoldsAcceptedLines == [] C7_State /\ [][C7_Step]_vars

C7_Witness ==
  /\ \E t \in Threads : Returning(t)
  /\ \E p \in Configured \ failed.ever : fs[p].data = written
  /\ Len(written) = 2
  /\ IsDebugLine(written[1])

InCritical(t) == pc[t] \in {"write", "close", "open", "unlock"}

\* C8: a thread that writes, closes or reopens the streams owns the mutex
\* until it returns, so no other thread is writing, closing or reopening
\* then, and none writes while the stream list is closed or cleared.
C8_WriteAndReopenExclusive ==
  \A t \in Threads :
    InCritical(t) =>
      /\ m_mtx = t
      /\ \A u \in Threads \ {t} : ~InCritical(u)

C8_Witness ==
  /\ pc["t1"] = "open"
  /\ pc["t2"] = "lock"
  /\ call["t2"].level = Debug
  /\ call["t1"].level = Error

\* C10 as stated: a path that failed to open at construction is never
\* opened or written again.
C10_FailedPathNeverRetried ==
  \A p \in failed.ctor : p \notin OpenPaths /\ fs[p] = OldFile

\* a thread's info or error call performs the open loop of ReopenFiles
Reopening ==
  \E t \in Threads :
    pc[t] = "open" /\ pc'[t] = "unlock" /\ call[t].level \in {Info, Error}

C10_Step ==
  \A p \in failed.ctor :
    /\ (p \notin OpenPaths /\ p \notin OpenPaths') => fs'[p] = fs[p]
    /\ (p \notin OpenPaths /\ p \in OpenPaths') => Reopening /\ canOpen[p]
    /\ Reopening => (p \in OpenPaths' <=> canOpen[p])

\* C10 amended: a path that failed to open at construction is left out of
\* the stream list and receives no writes while it is out, debug calls
\* never open it, but every info or error call that passes the floor
\* retries it in append mode, and once that succeeds it is written again.
C10_FailedPathRetriedOnReopen == [][C10_Step]_vars

C10_Witness ==
  \E p \in failed.ctor :
    /\ p \in OpenPaths
    /\ Len(fs[p].data) = 2
    /\ fs[p].data[1] = OldLine
    /\ fs[p].data[2] \in {written[i] : i \in Indices(written)}

====
